---------------------------- MODULE Spec2Model ----------------------------
(***************************************************************************)
(* A model of age_calculator.py: DateParser.parse_date (the cascade of     *)
(* parsing strategies over a raw string) and AgeCalculator.calculate_age   *)
(* (the calendar-aware age breakdown).                                     *)
(*                                                                         *)
(* Strings are TLA+ strings; a character is a string of length one.        *)
(* A datetime.date is a record [kind |-> "date", year, month, day]; Python *)
(* None is the record None, and a raised exception is a record whose kind  *)
(* is the exception's class name.                                          *)
(***************************************************************************)
EXTENDS Integers, Sequences, FiniteSets, TLC

VARIABLES
    pc,           \* "call" with the arguments bound, "return" after the call
    date_str,     \* the argument of parse_date
    clock,        \* datetime.date.today() as _get_relative_date reads it
    parsed,       \* what parse_date returned (or raised)
    returned_by,  \* the strategy whose return statement parse_date took
    format_index, \* the position in DATE_FORMATS of the format that matched
    birthday,     \* first argument of calculate_age
    today,        \* second argument of calculate_age
    age_data      \* what calculate_age returned (or raised)

vars == <<pc, date_str, clock, parsed, returned_by, format_index,
          birthday, today, age_data>>

(***************************************************************************)
(* datetime.date                                                           *)
(***************************************************************************)
MINYEAR == 1
MAXYEAR == 9999
MIN_VALID_YEAR == 1900
MAX_VALID_YEAR == 2100

None == [kind |-> "None", year |-> 0, month |-> 0, day |-> 0]

Raised(exc) == [kind |-> exc, year |-> 0, month |-> 0, day |-> 0]

IsDate(x) == x.kind = "date"

IsException(x) == x.kind \notin {"date", "None"}

isleap(y) == y % 4 = 0 /\ (y % 100 # 0 \/ y % 400 = 0)

DaysInMonth(y, m) ==
    IF m = 2 THEN (IF isleap(y) THEN 29 ELSE 28)
    ELSE IF m \in {4, 6, 9, 11} THEN 30 ELSE 31

\* datetime.date(y, m, d): ValueError unless the fields name a Gregorian date
date(y, m, d) ==
    IF /\ MINYEAR <= y /\ y <= MAXYEAR
       /\ 1 <= m /\ m <= 12
       /\ 1 <= d /\ d <= DaysInMonth(y, m)
    THEN [kind |-> "date", year |-> y, month |-> m, day |-> d]
    ELSE Raised("ValueError")

DaysBeforeYear(y) ==
    (y - 1) * 365 + (y - 1) \div 4 - (y - 1) \div 100 + (y - 1) \div 400

\* days of the year before month m (datetime's _DAYS_BEFORE_MONTH)
DaysBeforeMonth(y, m) ==
    <<0, 31, 59, 90, 120, 151, 181, 212, 243, 273, 304, 334>>[m]
      + (IF m > 2 /\ isleap(y) THEN 1 ELSE 0)

\* date.toordinal(): 0001-01-01 is day 1
toordinal(d) == DaysBeforeYear(d.year) + DaysBeforeMonth(d.year, d.month) + d.day

MaxOrdinal == DaysBeforeYear(MAXYEAR + 1)

\* date.fromordinal(n), for 1 <= n <= MaxOrdinal
fromordinal(n) ==
    LET n0   == n - 1
        n400 == n0 \div 146097
        r400 == n0 % 146097
        n100 == r400 \div 36524
        r100 == r400 % 36524
        n4   == r100 \div 1461
        r4   == r100 % 1461
        n1   == r4 \div 365
        r1   == r4 % 365
        y    == n400 * 400 + n100 * 100 + n4 * 4 + n1 + 1
    IN  IF n1 = 4 \/ n100 = 4
        THEN [kind |-> "date", year |-> y - 1, month |-> 12, day |-> 31]
        ELSE LET est == (r1 + 50) \div 32
                 pre == DaysBeforeMonth(y, est)
                 m == IF pre > r1 THEN est - 1 ELSE est
             IN  [kind |-> "date", year |-> y, month |-> m,
                  day |-> r1 - DaysBeforeMonth(y, m) + 1]

\* d + datetime.timedelta(days=n): OverflowError outside MINYEAR..MAXYEAR
AddDays(d, n) ==
    LET o == toordinal(d) + n
    IN  IF 1 <= o /\ o <= MaxOrdinal THEN fromordinal(o)
        ELSE Raised("OverflowError")

\* (a - b).days
DaysBetween(a, b) == toordinal(a) - toordinal(b)

\* a < b on dates: (year, month, day) compared lexicographically
DateLess(a, b) ==
    \/ a.year < b.year
    \/ a.year = b.year /\ a.month < b.month
    \/ a.year = b.year /\ a.month = b.month /\ a.day < b.day

\* d.replace(year=y, day=dd): ValueError when the result is no date
Replace(d, y, dd) == date(y, d.month, dd)

DayNames == <<"Monday", "Tuesday", "Wednesday", "Thursday", "Friday",
              "Saturday", "Sunday">>

\* d.strftime("%A")
WeekdayName(d) == DayNames[((toordinal(d) + 6) % 7) + 1]

(***************************************************************************)
(* str: characters, case, digits                                           *)
(***************************************************************************)
Digits == {"0", "1", "2", "3", "4", "5", "6", "7", "8", "9"}

DigitValue ==
    ("0" :> 0) @@ ("1" :> 1) @@ ("2" :> 2) @@ ("3" :> 3) @@ ("4" :> 4) @@
    ("5" :> 5) @@ ("6" :> 6) @@ ("7" :> 7) @@ ("8" :> 8) @@ ("9" :> 9)

LowerOf ==
    ("A" :> "a") @@ ("B" :> "b") @@ ("C" :> "c") @@ ("D" :> "d") @@
    ("E" :> "e") @@ ("F" :> "f") @@ ("G" :> "g") @@ ("H" :> "h") @@
    ("I" :> "i") @@ ("J" :> "j") @@ ("K" :> "k") @@ ("L" :> "l") @@
    ("M" :> "m") @@ ("N" :> "n") @@ ("O" :> "o") @@ ("P" :> "p") @@
    ("Q" :> "q") @@ ("R" :> "r") @@ ("S" :> "s") @@ ("T" :> "t") @@
    ("U" :> "u") @@ ("V" :> "v") @@ ("W" :> "w") @@ ("X" :> "x") @@
    ("Y" :> "y") @@ ("Z" :> "z")

UpperOf ==
    ("a" :> "A") @@ ("b" :> "B") @@ ("c" :> "C") @@ ("d" :> "D") @@
    ("e" :> "E") @@ ("f" :> "F") @@ ("g" :> "G") @@ ("h" :> "H") @@
    ("i" :> "I") @@ ("j" :> "J") @@ ("k" :> "K") @@ ("l" :> "L") @@
    ("m" :> "M") @@ ("n" :> "N") @@ ("o" :> "O") @@ ("p" :> "P") @@
    ("q" :> "Q") @@ ("r" :> "R") @@ ("s" :> "S") @@ ("t" :> "T") @@
    ("u" :> "U") @@ ("v" :> "V") @@ ("w" :> "W") @@ ("x" :> "X") @@
    ("y" :> "Y") @@ ("z" :> "Z")

UpperLetters == DOMAIN LowerOf

LowerLetters == DOMAIN UpperOf

\* the characters i..j of s, a slice cut to the string as s[i-1:j] is
Sub(s, i, j) ==
    LET hi == IF j > Len(s) THEN Len(s) ELSE j
    IN  IF i < 1 \/ i > hi THEN "" ELSE SubSeq(s, i, hi)

\* the i-th character of s, "" past either end
At(s, i) == Sub(s, i, i)

\* s[i-1:]
From(s, i) == Sub(s, i, Len(s))

IsDigit(c) == c \in Digits

IsLetter(c) == c \in UpperLetters \/ c \in LowerLetters

\* \s of the regular expressions and str.strip(), over the model's characters
IsSpace(c) == c = " "

LowerChar(c) == IF c \in UpperLetters THEN LowerOf[c] ELSE c

UpperChar(c) == IF c \in LowerLetters THEN UpperOf[c] ELSE c

RECURSIVE lower(_)
\* str.lower()
lower(s) ==
    IF s = "" THEN ""
    ELSE LowerChar(At(s, 1)) \o lower(From(s, 2))

RECURSIVE TitleFrom(_, _)
TitleFrom(s, prev_cased) ==
    IF s = "" THEN ""
    ELSE LET c == At(s, 1)
         IN  (IF prev_cased THEN LowerChar(c) ELSE UpperChar(c))
               \o TitleFrom(From(s, 2), IsLetter(c))

\* str.title(): a letter after a letter is lowered, any other letter raised
title(s) == TitleFrom(s, FALSE)

RECURSIVE AllDigits(_)
AllDigits(s) ==
    s = "" \/ (IsDigit(At(s, 1)) /\ AllDigits(From(s, 2)))

RECURSIVE int(_)
\* int(s) for a string of decimal digits
int(s) ==
    IF s = "" THEN 0
    ELSE int(Sub(s, 1, Len(s) - 1)) * 10 + DigitValue[At(s, Len(s))]

\* the number of white-space characters s begins with
LeadingSpaces(s) ==
    Cardinality({i \in 1..Len(s) : \A j \in 1..i : IsSpace(At(s, j))})

\* the number of white-space characters s ends with
TrailingSpaces(s) ==
    Cardinality({i \in 1..Len(s) : \A j \in i..Len(s) : IsSpace(At(s, j))})

\* str.strip()
strip(s) ==
    LET a == LeadingSpaces(s)
    IN  IF a = Len(s) THEN ""
        ELSE Sub(s, a + 1, Len(s) - TrailingSpaces(s))

RECURSIVE replace(_, _, _)
\* str.replace(old, new) for a one-character old
replace(s, old, new) ==
    IF s = "" THEN ""
    ELSE (IF At(s, 1) = old THEN new ELSE At(s, 1))
           \o replace(From(s, 2), old, new)

\* whether s holds word at position i, letter case ignored
HasAt(s, i, word) ==
    /\ i + Len(word) - 1 <= Len(s)
    /\ \A k \in 1..Len(word) :
          LowerChar(At(s, i + k - 1)) = LowerChar(At(word, k))

\* the number of characters of s from position i on that satisfy a class
RECURSIVE DigitRun(_, _)
DigitRun(s, i) == IF IsDigit(At(s, i)) THEN 1 + DigitRun(s, i + 1) ELSE 0

RECURSIVE SpaceRun(_, _)
SpaceRun(s, i) == IF IsSpace(At(s, i)) THEN 1 + SpaceRun(s, i + 1) ELSE 0

RECURSIVE LetterRun(_, _)
LetterRun(s, i) == IF IsLetter(At(s, i)) THEN 1 + LetterRun(s, i + 1) ELSE 0

(***************************************************************************)
(* DateParser: the strategies that need no format table                    *)
(***************************************************************************)
MAX_INPUT_LENGTH == 1000

\* _validate_date_bounds with the first and the last year left out
_validate_date_bounds_exclusive(d) ==
    IF d = None THEN None
    ELSE IF ~(MIN_VALID_YEAR < d.year /\ d.year < MAX_VALID_YEAR) THEN None
    ELSE d

\* _validate_date_bounds with the upper end of the range left unchecked
_validate_date_bounds_no_upper(d) ==
    IF d = None THEN None
    ELSE IF ~(MIN_VALID_YEAR <= d.year) THEN None
    ELSE d

\* if MIN_VALID_YEAR <= date.year <= MAX_VALID_YEAR, else None
_validate_date_bounds(d) ==
    IF d = None THEN None
    ELSE IF ~(MIN_VALID_YEAR <= d.year /\ d.year <= MAX_VALID_YEAR) THEN None
    ELSE d

\* the alternatives of DAY_NAME_REGEX, in the order the pattern lists them
DAY_NAMES == <<"Monday", "Tuesday", "Wednesday", "Thursday", "Friday",
               "Saturday", "Sunday", "Mon", "Tue", "Wed", "Thu", "Fri",
               "Sat", "Sun">>

\* DAY_NAME_REGEX.sub("", s): a leading weekday name, an optional comma and
\* the white space after them are removed
DayNameSub(s) ==
    LET hits == {i \in DOMAIN DAY_NAMES : HasAt(s, 1, DAY_NAMES[i])}
    IN  IF hits = {} THEN s
        ELSE LET first == CHOOSE i \in hits : \A j \in hits : i <= j
                 after_name == Len(DAY_NAMES[first]) + 1
                 after_comma ==
                     IF At(s, after_name) = "," THEN after_name + 1
                     ELSE after_name
             IN  From(s, after_comma + SpaceRun(s, after_comma))

\* a year ago and ahead taken as 366 days in a leap year
_get_relative_date_leap_adjusted(s, now) ==
    CASE s = "today"      -> now
      [] s = "yesterday"  -> AddDays(now, -1)
      [] s = "tomorrow"   -> AddDays(now, 1)
      [] s = "last week"  -> AddDays(now, -7)
      [] s = "next week"  -> AddDays(now, 7)
      [] s = "last month" -> AddDays(now, -30)
      [] s = "next month" -> AddDays(now, 30)
      [] s = "last year"  -> AddDays(now, IF isleap(now.year) THEN -366 ELSE -365)
      [] s = "next year"  -> AddDays(now, IF isleap(now.year) THEN 366 ELSE 365)
      [] s = "now"        -> now
      [] OTHER            -> None

\* today and its fixed offsets, keyed by the lower-cased phrase
_get_relative_date(s, now) ==
    CASE s = "today"      -> now
      [] s = "yesterday"  -> AddDays(now, -1)
      [] s = "tomorrow"   -> AddDays(now, 1)
      [] s = "last week"  -> AddDays(now, -7)
      [] s = "next week"  -> AddDays(now, 7)
      [] s = "last month" -> AddDays(now, -30)
      [] s = "next month" -> AddDays(now, 30)
      [] s = "last year"  -> AddDays(now, -365)
      [] s = "next year"  -> AddDays(now, 365)
      [] s = "now"        -> now
      [] OTHER            -> None

\* datetime.date(int(y), int(m), int(d)), ValueError and TypeError caught
_try_create_date(y, m, d) ==
    LET r == date(int(y), int(m), int(d))
    IN  IF r.kind \in {"ValueError", "TypeError"} THEN None ELSE r

\* 00-49 -> 2000-2049, 50-99 -> 1950-1999
_try_create_date_from_2_digit_year(y, m, d) ==
    LET year_int == int(y)
        full_year == IF year_int < 50 THEN 2000 + year_int
                     ELSE 1900 + year_int
        r == date(full_year, int(m), int(d))
    IN  IF r.kind \in {"ValueError", "TypeError"} THEN None ELSE r

\* COMPACT_DATE_REGEX = ^\d{6,8}$
MatchesCompact(s) == Len(s) \in 6..8 /\ AllDigits(s)

\* CompactReadings with the month-first reading of 8 digits tried before
\* the day-first one
CompactReadings_month_first(s) ==
    IF Len(s) = 8
    THEN << <<Sub(s, 1, 4), Sub(s, 5, 6), Sub(s, 7, 8)>>,
            <<Sub(s, 5, 8), Sub(s, 1, 2), Sub(s, 3, 4)>>,
            <<Sub(s, 5, 8), Sub(s, 3, 4), Sub(s, 1, 2)>> >>
    ELSE IF Len(s) = 6
    THEN << <<Sub(s, 5, 6), Sub(s, 1, 2), Sub(s, 3, 4)>>,
            <<Sub(s, 5, 6), Sub(s, 3, 4), Sub(s, 1, 2)>>,
            <<Sub(s, 1, 2), Sub(s, 3, 4), Sub(s, 5, 6)>> >>
    ELSE << >>

\* the parsers table with the day-first reading of 6 digits tried first
CompactReadings_six_day_first(s) ==
    IF Len(s) = 8
    THEN << <<Sub(s, 1, 4), Sub(s, 5, 6), Sub(s, 7, 8)>>,
            <<Sub(s, 5, 8), Sub(s, 3, 4), Sub(s, 1, 2)>>,
            <<Sub(s, 5, 8), Sub(s, 1, 2), Sub(s, 3, 4)>> >>
    ELSE IF Len(s) = 6
    THEN << <<Sub(s, 5, 6), Sub(s, 3, 4), Sub(s, 1, 2)>>,
            <<Sub(s, 5, 6), Sub(s, 1, 2), Sub(s, 3, 4)>>,
            <<Sub(s, 1, 2), Sub(s, 3, 4), Sub(s, 5, 6)>> >>
    ELSE << >>

\* the <<y, m, d>> slices of the parsers table, per length, in list order
CompactReadings(s) ==
    IF Len(s) = 8
    THEN << <<Sub(s, 1, 4), Sub(s, 5, 6), Sub(s, 7, 8)>>,
            <<Sub(s, 5, 8), Sub(s, 3, 4), Sub(s, 1, 2)>>,
            <<Sub(s, 5, 8), Sub(s, 1, 2), Sub(s, 3, 4)>> >>
    ELSE IF Len(s) = 6
    THEN << <<Sub(s, 5, 6), Sub(s, 1, 2), Sub(s, 3, 4)>>,
            <<Sub(s, 5, 6), Sub(s, 3, 4), Sub(s, 1, 2)>>,
            <<Sub(s, 1, 2), Sub(s, 3, 4), Sub(s, 5, 6)>> >>
    ELSE << >>

\* one reading turned into a date, by the length of its year slice
CompactDate(ymd) ==
    IF Len(ymd[1]) = 2
    THEN _try_create_date_from_2_digit_year(ymd[1], ymd[2], ymd[3])
    ELSE _try_create_date(ymd[1], ymd[2], ymd[3])

RECURSIVE CompactFrom(_, _)
CompactFrom(readings, i) ==
    IF i > Len(readings) THEN None
    ELSE IF CompactDate(readings[i]) # None THEN CompactDate(readings[i])
    ELSE CompactFrom(readings, i + 1)

\* the first reading of the string's length that is a date
_parse_compact_numeric(s) == CompactFrom(CompactReadings(s), 1)

\* JULIAN_DATE_REGEX = ^(\d{4})-(\d{1,3})$
MatchesJulian(s) ==
    /\ Len(s) \in 6..8
    /\ AllDigits(Sub(s, 1, 4))
    /\ At(s, 5) = "-"
    /\ AllDigits(From(s, 6))

\* every year taken to have 365 days
_parse_julian_common_year(s) ==
    IF MatchesJulian(s)
    THEN LET year == int(Sub(s, 1, 4))
             day_of_year == int(From(s, 6))
         IN  IF ~(1 <= day_of_year /\ day_of_year <= 365) THEN None
             ELSE LET jan1 == date(year, 1, 1)
                      r == IF IsDate(jan1) THEN AddDays(jan1, day_of_year - 1)
                           ELSE jan1
                  IN  IF r.kind \in {"ValueError", "OverflowError"} THEN None
                      ELSE r
    ELSE None

_parse_julian(s) ==
    IF MatchesJulian(s)
    THEN LET year == int(Sub(s, 1, 4))
             day_of_year == int(From(s, 6))
             max_days == IF isleap(year) THEN 366 ELSE 365
         IN  IF ~(1 <= day_of_year /\ day_of_year <= max_days) THEN None
             ELSE LET jan1 == date(year, 1, 1)
                      r == IF IsDate(jan1) THEN AddDays(jan1, day_of_year - 1)
                           ELSE jan1
                  IN  IF r.kind \in {"ValueError", "OverflowError"} THEN None
                      ELSE r
    ELSE None

SECONDS_PER_DAY == 86400

\* the largest accepted timestamp, 4102444800 seconds, in whole days
MAX_TIMESTAMP_DAYS == 47482

RECURSIVE DivModDay(_, _)
\* divmod(int(s), 86400) by long division: a 10-digit value is beyond
\* the integers of the model checker, its quotient and remainder are not
DivModDay(s, qr) ==
    IF s = "" THEN qr
    ELSE LET cur == qr[2] * 10 + DigitValue[At(s, 1)]
         IN  DivModDay(From(s, 2),
                       <<qr[1] * 10 + cur \div SECONDS_PER_DAY,
                         cur % SECONDS_PER_DAY>>)

\* UNIX_TIMESTAMP_REGEX = ^(0|\d{9,10})$
MatchesUnix(s) == s = "0" \/ (Len(s) \in {9, 10} /\ AllDigits(s))

\* the date of the timestamp on a host one hour east of UTC
_parse_unix_timestamp_local(s) ==
    IF MatchesUnix(s)
    THEN LET qr == DivModDay(s, <<0, 0>>)
         IN  IF \/ qr[1] < MAX_TIMESTAMP_DAYS
                \/ (qr[1] = MAX_TIMESTAMP_DAYS /\ qr[2] = 0)
             THEN AddDays(date(1970, 1, 1),
                          qr[1] + (IF qr[2] >= 82800 THEN 1 ELSE 0))
             ELSE None
    ELSE None

\* the UTC date of the timestamp, for 0 <= timestamp <= 4102444800
_parse_unix_timestamp(s) ==
    IF MatchesUnix(s)
    THEN LET qr == DivModDay(s, <<0, 0>>)
         IN  IF \/ qr[1] < MAX_TIMESTAMP_DAYS
                \/ (qr[1] = MAX_TIMESTAMP_DAYS /\ qr[2] = 0)
             THEN AddDays(date(1970, 1, 1), qr[1])
             ELSE None
    ELSE None

MAX_EXCEL_SERIAL == 2958465

\* EXCEL_SERIAL_REGEX = ^\d{1,7}$
MatchesExcel(s) == Len(s) \in 1..7 /\ AllDigits(s)

\* a 4-digit year is read as a serial number like any other number
_parse_excel_serial_any_number(s) ==
    IF ~MatchesExcel(s) \/ Len(s) = 6 THEN None
    ELSE LET serial == int(s)
             excel_epoch == date(1899, 12, 31)
         IN  IF ~(1 <= serial /\ serial <= MAX_EXCEL_SERIAL) THEN None
             ELSE LET r == IF serial >= 60 THEN AddDays(excel_epoch, serial - 1)
                           ELSE AddDays(excel_epoch, serial)
                  IN  IF r.kind \in {"ValueError", "OverflowError"} THEN None
                      ELSE r

\* the day taken off after serial 60, not from it on
_parse_excel_serial_after_leap_day(s) ==
    IF ~MatchesExcel(s) \/ Len(s) = 6 THEN None
    ELSE LET serial == int(s)
             excel_epoch == date(1899, 12, 31)
         IN  IF Len(s) = 4 /\ MIN_VALID_YEAR <= serial
                           /\ serial <= MAX_VALID_YEAR THEN None
             ELSE IF ~(1 <= serial /\ serial <= MAX_EXCEL_SERIAL) THEN None
             ELSE LET r == IF serial > 60 THEN AddDays(excel_epoch, serial - 1)
                           ELSE AddDays(excel_epoch, serial)
                  IN  IF r.kind \in {"ValueError", "OverflowError"} THEN None
                      ELSE r

\* the serial counted from the epoch without the day taken off from serial
\* 60 on
_parse_excel_serial_no_leap_fix(s) ==
    IF ~MatchesExcel(s) \/ Len(s) = 6 THEN None
    ELSE LET serial == int(s)
             excel_epoch == date(1899, 12, 31)
         IN  IF Len(s) = 4 /\ MIN_VALID_YEAR <= serial
                           /\ serial <= MAX_VALID_YEAR THEN None
             ELSE IF ~(1 <= serial /\ serial <= MAX_EXCEL_SERIAL) THEN None
             ELSE LET r == AddDays(excel_epoch, serial)
                  IN  IF r.kind \in {"ValueError", "OverflowError"} THEN None
                      ELSE r

_parse_excel_serial(s) ==
    IF ~MatchesExcel(s) \/ Len(s) = 6 THEN None
    ELSE LET serial == int(s)
             excel_epoch == date(1899, 12, 31)
         IN  IF Len(s) = 4 /\ MIN_VALID_YEAR <= serial
                           /\ serial <= MAX_VALID_YEAR THEN None
             ELSE IF ~(1 <= serial /\ serial <= MAX_EXCEL_SERIAL) THEN None
             ELSE LET r == IF serial >= 60 THEN AddDays(excel_epoch, serial - 1)
                           ELSE AddDays(excel_epoch, serial)
                  IN  IF r.kind \in {"ValueError", "OverflowError"} THEN None
                      ELSE r

\* FISCAL_QUARTER_REGEX = ^(\d{4})[-\s]?Q([1-4])$, letter case ignored
MatchesFiscal(s) ==
    /\ Len(s) \in {6, 7}
    /\ AllDigits(Sub(s, 1, 4))
    /\ Len(s) = 7 => (At(s, 5) = "-" \/ IsSpace(At(s, 5)))
    /\ LowerChar(At(s, Len(s) - 1)) = "q"
    /\ At(s, Len(s)) \in {"1", "2", "3", "4"}

_parse_fiscal_quarter(s) ==
    IF MatchesFiscal(s)
    THEN LET year == int(Sub(s, 1, 4))
             quarter == int(At(s, Len(s)))
             month == <<1, 4, 7, 10>>[quarter]
             r == date(year, month, 1)
         IN  IF r.kind \in {"ValueError", "KeyError"} THEN None ELSE r
    ELSE None

(***************************************************************************)
(* datetime.datetime.strptime, as _try_strptime uses it                    *)
(*                                                                         *)
(* A format is compiled to a regular expression, one element per           *)
(* directive, white-space run or literal character, matched from the       *)
(* start of the string with letter case ignored.  Each element offers its  *)
(* alternatives in the order the library lists them; the first way through *)
(* the whole pattern wins, and text left over after it is an error.        *)
(***************************************************************************)
MONTH_NAMES == <<"january", "february", "march", "april", "may", "june",
                 "july", "august", "september", "october", "november",
                 "december">>

MONTH_ABBRS == <<"jan", "feb", "mar", "apr", "may", "jun", "jul", "aug",
                 "sep", "oct", "nov", "dec">>

WEEKDAY_ABBRS == <<"mon", "tue", "wed", "thu", "fri", "sat", "sun">>

\* the index of the name of the list found at position i of s, 0 if none
NameAt(names, s, i) ==
    LET hits == {k \in DOMAIN names : HasAt(s, i, names[k])}
    IN  IF hits = {} THEN 0 ELSE CHOOSE k \in hits : TRUE

RECURSIVE Tokenize(_)
\* the elements of a format: "%x" directives, " " for a white-space run,
\* single literal characters
Tokenize(fmt) ==
    IF fmt = "" THEN << >>
    ELSE IF At(fmt, 1) = "%"
    THEN <<Sub(fmt, 1, 2)>> \o Tokenize(From(fmt, 3))
    ELSE IF IsSpace(At(fmt, 1))
    THEN <<" ">> \o Tokenize(From(fmt, 1 + SpaceRun(fmt, 1)))
    ELSE <<At(fmt, 1)>> \o Tokenize(From(fmt, 2))

\* <<n, n-1, ..., 1>>: a greedy repetition gives back one character at a time
Downto(n) == [k \in 1..n |-> n + 1 - k]

Opt(cond, len) == IF cond THEN <<len>> ELSE << >>

\* %z after its sign: hh, optional colon, mm, then optionally seconds with
\* an optional fraction; the lengths it can take, longest first
ZoneLengths(s, i) ==
    LET c1 == IF At(s, i + 3) = ":" THEN 1 ELSE 0
        m  == i + 3 + c1
        hhmm == /\ IsDigit(At(s, i + 1)) /\ IsDigit(At(s, i + 2))
                /\ At(s, m) \in {"0", "1", "2", "3", "4", "5"}
                /\ IsDigit(At(s, m + 1))
        c2 == IF At(s, m + 2) = ":" THEN 1 ELSE 0
        x  == m + 2 + c2
        secs == /\ At(s, x) \in {"0", "1", "2", "3", "4", "5"}
                /\ IsDigit(At(s, x + 1))
        frac == IF secs /\ At(s, x + 2) = "."
                THEN (IF DigitRun(s, x + 3) > 6 THEN 6 ELSE DigitRun(s, x + 3))
                ELSE 0
    IN  IF ~hhmm THEN << >>
        ELSE [k \in 1..frac |-> (x + 2 - i) + 2 + frac - k]
               \o Opt(secs, x + 2 - i) \o <<m + 2 - i>>

\* the lengths element tok can take at position i of s, in the order the
\* regular expression tries them
Candidates(tok, s, i) ==
    LET c1 == At(s, i)
        c2 == At(s, i + 1)
        d1 == IsDigit(c1)
        d2 == IsDigit(c2)
    IN  CASE tok = "%d" ->
               Opt(\/ (c1 = "3" /\ c2 \in {"0", "1"})
                   \/ (c1 \in {"1", "2"} /\ d2)
                   \/ (c1 = "0" /\ d2 /\ c2 # "0"), 2)
                 \o Opt(d1 /\ c1 # "0", 1)
                 \o Opt(c1 = " " /\ d2 /\ c2 # "0", 2)
          [] tok \in {"%m", "%I"} ->
               Opt(\/ (c1 = "1" /\ c2 \in {"0", "1", "2"})
                   \/ (c1 = "0" /\ d2 /\ c2 # "0"), 2)
                 \o Opt(d1 /\ c1 # "0", 1)
          [] tok = "%H" ->
               Opt(\/ (c1 = "2" /\ c2 \in {"0", "1", "2", "3"})
                   \/ (c1 \in {"0", "1"} /\ d2), 2)
                 \o Opt(d1, 1)
          [] tok = "%M" ->
               Opt(c1 \in {"0", "1", "2", "3", "4", "5"} /\ d2, 2)
                 \o Opt(d1, 1)
          [] tok = "%S" ->
               Opt(\/ (c1 = "6" /\ c2 \in {"0", "1"})
                   \/ (c1 \in {"0", "1", "2", "3", "4", "5"} /\ d2), 2)
                 \o Opt(d1, 1)
          [] tok = "%V" ->
               Opt(\/ (c1 = "5" /\ c2 \in {"0", "1", "2", "3"})
                   \/ (c1 = "0" /\ d2 /\ c2 # "0")
                   \/ (c1 \in {"1", "2", "3", "4"} /\ d2), 2)
                 \o Opt(d1, 1)
          [] tok = "%u" -> Opt(d1 /\ c1 \notin {"0", "8", "9"}, 1)
          [] tok = "%y" -> Opt(DigitRun(s, i) >= 2, 2)
          [] tok \in {"%Y", "%G"} -> Opt(DigitRun(s, i) >= 4, 4)
          [] tok = "%f" ->
               Downto(IF DigitRun(s, i) > 6 THEN 6 ELSE DigitRun(s, i))
          [] tok = "%z" ->
               IF c1 \in {"+", "-"} THEN ZoneLengths(s, i)
               ELSE Opt(c1 = "Z", 1)
          [] tok = "%p" -> Opt(HasAt(s, i, "am") \/ HasAt(s, i, "pm"), 2)
          [] tok = "%a" -> Opt(NameAt(WEEKDAY_ABBRS, s, i) # 0, 3)
          [] tok = "%b" -> Opt(NameAt(MONTH_ABBRS, s, i) # 0, 3)
          [] tok = "%B" ->
               IF NameAt(MONTH_NAMES, s, i) = 0 THEN << >>
               ELSE <<Len(MONTH_NAMES[NameAt(MONTH_NAMES, s, i)])>>
          [] tok = " " -> Downto(SpaceRun(s, i))
          [] OTHER -> Opt(c1 # "" /\ LowerChar(c1) = LowerChar(tok), 1)

Directives == {"Y", "y", "G", "m", "B", "b", "d", "V", "u", "H", "I", "M",
               "S", "f", "z", "p", "a"}

NoCaptures == [k \in Directives |-> ""]

NoMatch == [ok |-> FALSE, end |-> 0, caps |-> NoCaptures]

RECURSIVE MatchFrom(_, _, _, _, _)
RECURSIVE TryLengths(_, _, _, _, _, _, _)
\* the elements toks[k..] matched against s from position i on
MatchFrom(toks, k, s, i, caps) ==
    IF k > Len(toks) THEN [ok |-> TRUE, end |-> i, caps |-> caps]
    ELSE TryLengths(toks, k, s, i, caps, Candidates(toks[k], s, i), 1)

TryLengths(toks, k, s, i, caps, lens, j) ==
    IF j > Len(lens) THEN NoMatch
    ELSE LET tok == toks[k]
             caps2 == IF Len(tok) = 2 /\ At(tok, 1) = "%"
                      THEN [caps EXCEPT ![At(tok, 2)] =
                                            Sub(s, i, i + lens[j] - 1)]
                      ELSE caps
             r == MatchFrom(toks, k + 1, s, i + lens[j], caps2)
         IN  IF r.ok THEN r
             ELSE TryLengths(toks, k, s, i, caps, lens, j + 1)

\* the year of a %y field: 69-99 -> 1969-1999, 00-68 -> 2000-2068
TwoDigitYear(yy) == IF yy <= 68 THEN 2000 + yy ELSE 1900 + yy

\* whether a matched %z field is refused: seconds with mismatched colons,
\* or an offset of 24 hours or more
BadZone(z) ==
    /\ z # "" /\ z # "Z"
    /\ \/ int(Sub(z, 2, 3)) >= 24
       \/ LET c1 == At(z, 4) = ":"
              rest == From(z, IF c1 THEN 7 ELSE 6)
          IN  rest # "" /\ (c1 # (At(rest, 1) = ":"))

\* the date of ISO year, week and weekday (1-7): _calc_julian_from_V, then
\* the day of the year turned into a date
IsoWeekDate(iso_year, iso_week, iso_weekday) ==
    IF ~IsDate(date(iso_year, 1, 4)) THEN Raised("ValueError")
    ELSE LET jan4 == date(iso_year, 1, 4)
             correction == ((toordinal(jan4) + 6) % 7) + 1 + 3
             ordinal == iso_week * 7 + iso_weekday - correction
             o == toordinal(date(iso_year, 1, 1)) + ordinal - 1
         IN  IF ordinal < 1 /\ iso_year - 1 < MINYEAR THEN Raised("ValueError")
             ELSE IF 1 <= o /\ o <= MaxOrdinal THEN fromordinal(o)
             ELSE Raised("ValueError")

\* the date a successful match stands for; a missing month or day is 1
CapturedDate(c) ==
    LET year  == IF c["y"] # "" THEN TwoDigitYear(int(c["y"]))
                 ELSE IF c["Y"] # "" THEN int(c["Y"])
                 ELSE 1900
        month == IF c["m"] # "" THEN int(c["m"])
                 ELSE IF c["B"] # "" THEN NameAt(MONTH_NAMES, c["B"], 1)
                 ELSE IF c["b"] # "" THEN NameAt(MONTH_ABBRS, c["b"], 1)
                 ELSE 1
        day   == IF c["d"] # "" THEN int(strip(c["d"])) ELSE 1
    IN  IF c["S"] # "" /\ int(c["S"]) > 59 THEN Raised("ValueError")
        ELSE IF BadZone(c["z"]) THEN Raised("ValueError")
        ELSE IF c["G"] # ""
        THEN IsoWeekDate(int(c["G"]), int(c["V"]), int(c["u"]))
        ELSE date(year, month, day)

\* the date of a match r that took the whole of s; ValueError when the
\* pattern did not match or unconverted data remains
MatchedDate(r, s) ==
    IF ~r.ok \/ r.end # Len(s) + 1 THEN Raised("ValueError")
    ELSE CapturedDate(r.caps)

\* datetime.datetime.strptime(s, fmt), its date part; toks = Tokenize(fmt)
strptime(s, toks) == MatchedDate(MatchFrom(toks, 1, s, 1, NoCaptures), s)

\* _try_strptime without the except clause: the ValueError gets out
_try_strptime_uncaught(s, toks) == strptime(s, toks)

\* except ValueError: return None
ValueErrorCaught(r) == IF r.kind = "ValueError" THEN None ELSE r

\* strptime with its ValueError turned into None
_try_strptime(s, toks) == ValueErrorCaught(strptime(s, toks))

(***************************************************************************)
(* DateParser: the format tables and parse_date                            *)
(*                                                                         *)
(* The characters of the CJK and Cyrillic layouts, which lie outside the   *)
(* character set of this module, are written with stand-ins that no input  *)
(* of the model holds: @ # $ for the year, month and day signs of the      *)
(* first CJK layout, ^ & * for those of the second, ~ for the Cyrillic     *)
(* letter of the "%d %B %Y" layout that ends in a full stop.               *)
(***************************************************************************)
DATE_FORMATS == <<
    "%Y-%m-%d", "%Y/%m/%d", "%Y.%m.%d", "%Y %m %d",
    "%m/%d/%Y", "%m-%d-%Y", "%m.%d.%Y", "%m %d %Y",
    "%d/%m/%Y", "%d-%m-%Y", "%d.%m.%Y", "%d %m %Y",
    "%B %d, %Y", "%b %d, %Y", "%d %B, %Y", "%d %b, %Y",
    "%B %d %Y", "%b %d %Y", "%d %B %Y", "%d %b %Y",
    "%d-%B-%Y", "%d-%b-%Y", "%B-%d-%Y", "%b-%d-%Y",
    "%Y %B %d", "%Y %b %d", "%Y, %B %d", "%Y, %b %d",
    "%m/%d/%y", "%m-%d-%y", "%m.%d.%y",
    "%d/%m/%y", "%d-%m-%y", "%d.%m.%y",
    "%y/%m/%d", "%y-%m-%d", "%y.%m.%d",
    "%m %d %y", "%d %m %y", "%y %m %d",
    "%G-W%V-%u",
    "%Y-%m-%d %H:%M:%S", "%Y-%m-%d %H:%M", "%Y-%m-%d %H:%M:%S.%f",
    "%Y-%m-%d %H:%M:%S.%fZ", "%Y-%m-%dT%H:%M:%S", "%Y-%m-%dT%H:%M:%S.%f",
    "%Y-%m-%dT%H:%M:%SZ", "%Y-%m-%dT%H:%M", "%Y/%m/%d %H:%M:%S",
    "%m/%d/%Y %I:%M:%S %p", "%m/%d/%Y %I:%M %p",
    "%d-%m-%Y %H:%M:%S", "%d-%m-%Y %H:%M",
    "%d/%m/%Y %H:%M:%S", "%d/%m/%Y %H:%M",
    "%a, %d %b %Y %H:%M:%S", "%a %b %d %H:%M:%S %Y", "%a %d %b %Y",
    "%B %Y", "%b %Y", "%Y-%m", "%m/%Y", "%m-%Y", "%m.%Y",
    "%Y %B", "%Y %b", "%B, %Y",
    "%d%b%Y", "%Y%b%d", "%d%m%Y", "%Y%m%d",
    "%Y@%m#%d$", "%Y^ %m& %d*",
    "%d %B %Y ~.", "%d de %B de %Y", "%d. %B %Y", "%d %b. %Y",
    "%d de %b de %Y", "%d. %b %Y",
    "%Y-%m-%d %H:%M:%S.%f+00:00", "%Y%m%d %H:%M:%S",
    "%Y-%m-%d %H:%M:%S%z", "%Y-%m-%dT%H:%M:%S%z", "%Y-%m-%dT%H:%M:%S.%fZ",
    "%Y%m%d%H%M%S", "%d/%b/%Y:%H:%M:%S", "%Y-%m-%d %H:%M:%S,%f",
    "%d.%m.%Y %H:%M:%S", "%Y/%m/%d %H:%M",
    "%Y" >>

NATURAL_FORMATS == <<
    "%B %d, %Y", "%b %d, %Y", "%d %B, %Y", "%d %b, %Y",
    "%B %d %Y", "%b %d %Y", "%d %B %Y", "%d %b %Y" >>

DateFormatTokens == [i \in DOMAIN DATE_FORMATS |-> Tokenize(DATE_FORMATS[i])]

NaturalFormatTokens ==
    [i \in DOMAIN NATURAL_FORMATS |-> Tokenize(NATURAL_FORMATS[i])]

\* has_day looking for the markers in upper case, which no format holds
has_day_upper(fmt) ==
    \E i \in 1..Len(fmt) : Sub(fmt, i, i + 1) \in {"%D", "%J", "%U"}

\* any(marker in fmt.lower() for marker in ["%d", "%j", "%u"])
has_day(fmt) ==
    \E i \in 1..Len(fmt) :
        HasAt(fmt, i, "%d") \/ HasAt(fmt, i, "%j") \/ HasAt(fmt, i, "%u")

\* the result of a format without a day marker moved to the month's last day
TableDate_last_day(r, fmt) ==
    IF IsDate(r) /\ ~has_day(fmt)
    THEN [r EXCEPT !.day = DaysInMonth(r.year, r.month)] ELSE r

\* the result of a format without a day marker is moved to day 1
TableDate(r, fmt) ==
    IF IsDate(r) /\ ~has_day(fmt) THEN [r EXCEPT !.day = 1] ELSE r

NoHit == [date |-> None, index |-> 0]

\* if parsed := ...: the format at index is taken when r is a date
HitAt(r, index) == IF r # None THEN [date |-> r, index |-> index] ELSE NoHit

\* the earlier hit if there is one, else the later
FirstHit(earlier, later) == IF earlier.date # None THEN earlier ELSE later

RECURSIVE FirstFormatIn(_, _, _, _)
\* the first format among table[lo..hi], in table order, that
\* _try_strptime accepts s in, with the date it gives; the range is halved
\* only to keep the evaluation shallow
FirstFormatIn(s, table, lo, hi) ==
    IF lo > hi THEN NoHit
    ELSE IF lo = hi THEN HitAt(_try_strptime(s, table[lo]), lo)
    ELSE FirstHit(FirstFormatIn(s, table, lo, (lo + hi) \div 2),
                  FirstFormatIn(s, table, (lo + hi) \div 2 + 1, hi))

\* for fmt in table: if parsed := _try_strptime(s, fmt): ...
FirstFormat(s, table) == FirstFormatIn(s, table, 1, Len(table))

ORDINAL_SUFFIXES == {"st", "nd", "rd", "th"}

HasSuffixAt(s, i) == lower(Sub(s, i, i + 1)) \in ORDINAL_SUFFIXES

\* the digits ORDINAL_SUFFIX_REGEX = (\d{1,2})(st|nd|rd|th) takes at
\* position i, 0 when it does not match there
OrdinalAt(s, i) ==
    IF IsDigit(At(s, i)) /\ IsDigit(At(s, i + 1)) /\ HasSuffixAt(s, i + 2)
    THEN 2
    ELSE IF IsDigit(At(s, i)) /\ HasSuffixAt(s, i + 1) THEN 1
    ELSE 0

RECURSIVE OrdinalSub(_, _)
\* ORDINAL_SUFFIX_REGEX.sub(r"\1", s) from position i on
OrdinalSub(s, i) ==
    IF i > Len(s) THEN ""
    ELSE IF OrdinalAt(s, i) > 0
    THEN Sub(s, i, i + OrdinalAt(s, i) - 1)
           \o OrdinalSub(s, i + OrdinalAt(s, i) + 2)
    ELSE At(s, i) \o OrdinalSub(s, i + 1)

\* ORDINAL_SUFFIX_REGEX.search(s)
HasOrdinal(s) == \E i \in 1..Len(s) : OrdinalAt(s, i) > 0

\* DAY_OF_MONTH_REGEX = (\d{1,2})(?:st|nd|rd|th)?\s+of\s+([a-zA-Z]+)\s+(\d{4})
\* matched at the start of s: "" when it does not match, else the three
\* groups joined by single spaces
DayOfMonthMatch(s) ==
    LET n    == DigitRun(s, 1)
        p2   == IF HasSuffixAt(s, n + 1) THEN n + 3 ELSE n + 1
        p3   == p2 + SpaceRun(s, p2)
        p4   == p3 + 2
        p5   == p4 + SpaceRun(s, p4)
        p6   == p5 + LetterRun(s, p5)
        p7   == p6 + SpaceRun(s, p6)
    IN  IF /\ n \in {1, 2}
           /\ p3 > p2
           /\ HasAt(s, p3, "of")
           /\ p5 > p4
           /\ p6 > p5
           /\ p7 > p6
           /\ DigitRun(s, p7) >= 4
        THEN Sub(s, 1, n) \o " " \o Sub(s, p5, p6 - 1) \o " "
               \o Sub(s, p7, p7 + 3)
        ELSE ""

\* for fmt in NATURAL_FORMATS: if parsed := _try_strptime(clean_str, fmt)
NaturalDate(clean_str) == FirstFormat(clean_str, NaturalFormatTokens).date

\* the "day of month" branch, of_str being the three groups joined
DayOfMonthDate(of_str) == IF of_str = "" THEN None ELSE NaturalDate(of_str)

\* the date of the first branch if it returns one, else of the second
FirstReturn(first, second) == IF first # None THEN first ELSE second

_parse_special_formats(s) ==
    FirstReturn(DayOfMonthDate(DayOfMonthMatch(s)),
                IF HasOrdinal(s) THEN NaturalDate(OrdinalSub(s, 1))
                ELSE None)

\* what a call returns: the exception it raises, or the date in bounds
Returned(r) == IF IsException(r) THEN r ELSE _validate_date_bounds(r)

PyStr(s) == [type |-> "str", value |-> s]

Result(by, index, r) == [by |-> by, index |-> index, date |-> Returned(r)]

\* the cascade with the Julian strategy moved behind the format table
Cascade_julian_last == <<"unix", "relative", "excel", "fiscal", "special",
                         "compact", "table", "julian">>

\* the strategies of parse_date, in the order its statements try them
Cascade == <<"unix", "relative", "julian", "excel", "fiscal", "special",
             "compact", "table">>

\* the date of the format that matched, moved to day 1 where the format
\* has no day marker
TableHit(hit) ==
    IF hit.date # None
    THEN [date |-> TableDate(hit.date, DATE_FORMATS[hit.index]),
          index |-> hit.index]
    ELSE NoHit

\* what one strategy of parse_date gives: the Unix strategy reads the
\* stripped string, the others the string with the day name removed and
\* every "T" turned into a space; the relative strategy reads it lowered,
\* the format table reads it title-cased
StrategyHit(name, stripped, clean_str, now) ==
    CASE name = "unix" ->
           [date |-> _parse_unix_timestamp(stripped), index |-> 0]
      [] name = "relative" ->
           [date |-> _get_relative_date(lower(clean_str), now), index |-> 0]
      [] name = "julian" ->
           [date |-> _parse_julian(clean_str), index |-> 0]
      [] name = "excel" ->
           [date |-> _parse_excel_serial(clean_str), index |-> 0]
      [] name = "fiscal" ->
           [date |-> _parse_fiscal_quarter(clean_str), index |-> 0]
      [] name = "special" ->
           [date |-> _parse_special_formats(clean_str), index |-> 0]
      [] name = "compact" ->
           [date |-> IF MatchesCompact(clean_str)
                     THEN _parse_compact_numeric(clean_str)
                     ELSE None,
            index |-> 0]
      [] name = "table" ->
           TableHit(FirstFormat(title(clean_str), DateFormatTokens))

RECURSIVE CascadeFrom(_, _, _, _, _)
RECURSIVE CascadeStep(_, _, _, _, _, _)
\* the strategies order[i..] tried in turn: the first that gives a date
\* decides the call
CascadeFrom(order, i, stripped, clean_str, now) ==
    IF i > Len(order) THEN Result("exhausted", 0, None)
    ELSE CascadeStep(order, i, stripped, clean_str, now,
                     StrategyHit(order[i], stripped, clean_str, now))

\* a strategy whose date is outside the valid years is passed over and the
\* next one tried
CascadeStep_past_rejected(order, i, stripped, clean_str, now, hit) ==
    IF hit.date # None /\ _validate_date_bounds(hit.date) # None
    THEN Result(order[i], hit.index, hit.date)
    ELSE CascadeFrom(order, i + 1, stripped, clean_str, now)

\* if hit := strategy(...): return _validate_date_bounds(hit)
CascadeStep(order, i, stripped, clean_str, now, hit) ==
    IF hit.date # None THEN Result(order[i], hit.index, hit.date)
    ELSE CascadeFrom(order, i + 1, stripped, clean_str, now)

\* parse_date(date_str), with the return statement taken: "by" names the
\* strategy and "index" the format of DATE_FORMATS
ParseDateVia(arg, now) ==
    IF arg.type # "str" THEN Result("not_str", 0, None)
    ELSE LET stripped == strip(arg.value)
         IN  IF stripped = "" \/ Len(stripped) > MAX_INPUT_LENGTH
             THEN Result("rejected", 0, None)
             ELSE CascadeFrom(Cascade, 1, stripped,
                              replace(DayNameSub(stripped), "T", " "), now)

parse_date(arg, now) == ParseDateVia(arg, now).date

(***************************************************************************)
(* AgeCalculator.calculate_age                                             *)
(***************************************************************************)
NoAge == [status |-> "None", message |-> "", years |-> 0, months |-> 0,
          days |-> 0, total_days |-> 0, birth_day_of_week |-> "",
          next_birthday_in_days |-> 0]

FutureBirthday ==
    [NoAge EXCEPT !.status = "ValueError",
                  !.message = "Birthday cannot be in the future."]

\* BirthdayInYear with the fallback of a February 29 birthday moved to
\* March 1
BirthdayInYear_march_first(b, y) ==
    IF IsDate(Replace(b, y, b.day)) THEN Replace(b, y, b.day)
    ELSE date(y, 3, 1)

\* birthday.replace(year=y), falling back to day=28 on ValueError
BirthdayInYear(b, y) ==
    IF IsDate(Replace(b, y, b.day)) THEN Replace(b, y, b.day)
    ELSE Replace(b, y, 28)

\* AgeYears with the months compared and the days not
AgeYears_month_only(b, t) ==
    t.year - b.year - (IF t.month < b.month THEN 1 ELSE 0)

AgeYears(b, t) ==
    t.year - b.year
      - (IF t.month < b.month \/ (t.month = b.month /\ t.day < b.day)
         THEN 1 ELSE 0)

\* AgeMonths without the month borrowed when the day is not yet reached
AgeMonths_no_borrow(b, t) ==
    LET m0 == t.month - b.month
    IN  IF m0 < 0 THEN m0 + 12 ELSE m0

AgeMonths(b, t) ==
    LET m0 == t.month - b.month
        m1 == IF t.day < b.day THEN m0 - 1 ELSE m0
    IN  IF m1 < 0 THEN m1 + 12 ELSE m1

\* AgeDays with the previous month's length added to the difference of
\* the days, the anniversary not clamped to that month
AgeDays_unclamped(b, t) ==
    IF t.day >= b.day THEN t.day - b.day
    ELSE LET last_day_of_prev_month == AddDays(Replace(t, t.year, 1), -1)
         IN  t.day + last_day_of_prev_month.day - b.day

\* AgeDays with the anniversary clamped to the length of the reference's
\* own month, not of the month before it
AgeDays_current_month(b, t) ==
    IF t.day >= b.day THEN t.day - b.day
    ELSE LET first_day_of_current_month == Replace(t, t.year, 1)
             last_day_of_prev_month == AddDays(first_day_of_current_month, -1)
             effective_day ==
                 IF b.day < DaysInMonth(t.year, t.month) THEN b.day
                 ELSE DaysInMonth(t.year, t.month)
             anniversary_in_prev_month ==
                 Replace(last_day_of_prev_month, last_day_of_prev_month.year,
                         IF effective_day < last_day_of_prev_month.day
                         THEN effective_day ELSE last_day_of_prev_month.day)
         IN  DaysBetween(t, anniversary_in_prev_month)

AgeDays(b, t) ==
    IF t.day >= b.day THEN t.day - b.day
    ELSE LET first_day_of_current_month == Replace(t, t.year, 1)
             last_day_of_prev_month == AddDays(first_day_of_current_month, -1)
             effective_day ==
                 IF b.day < last_day_of_prev_month.day THEN b.day
                 ELSE last_day_of_prev_month.day
             anniversary_in_prev_month ==
                 Replace(last_day_of_prev_month, last_day_of_prev_month.year,
                         effective_day)
         IN  DaysBetween(t, anniversary_in_prev_month)

\* NextBirthday with the anniversary always taken in the following year
NextBirthday_always_next_year(b, t) == BirthdayInYear(b, t.year + 1)

\* NextBirthday with the anniversary of the reference day itself moved to
\* the next year
NextBirthday_not_today(b, t) ==
    LET this_year == BirthdayInYear(b, t.year)
    IN  IF ~DateLess(t, this_year) THEN BirthdayInYear(b, t.year + 1)
        ELSE this_year

NextBirthday(b, t) ==
    LET this_year == BirthdayInYear(b, t.year)
    IN  IF DateLess(this_year, t) THEN BirthdayInYear(b, t.year + 1)
        ELSE this_year

\* the guard with the day of birth itself refused as well
BirthdayAfter_or_on(b, t) == ~DateLess(b, t)

\* if birthday > today
BirthdayAfter(b, t) == DateLess(t, b)

calculate_age(b, t) ==
    IF BirthdayAfter(b, t) THEN FutureBirthday
    ELSE [status |-> "AgeResult", message |-> "",
          years |-> AgeYears(b, t),
          months |-> AgeMonths(b, t),
          days |-> AgeDays(b, t),
          total_days |-> DaysBetween(t, b),
          birth_day_of_week |-> WeekdayName(b),
          next_birthday_in_days |-> DaysBetween(NextBirthday(b, t), t)]

(***************************************************************************)
(* Inputs of parse_date: dates, real and impossible, written out in the    *)
(* layouts the parser knows, and strings that are no date at all.          *)
(***************************************************************************)
DigitChars == <<"0", "1", "2", "3", "4", "5", "6", "7", "8", "9">>

RECURSIVE Padded(_, _)
\* n in decimal, zero-padded to width digits (its low digits if longer)
Padded(n, width) ==
    IF width = 0 THEN ""
    ELSE Padded(n \div 10, width - 1) \o DigitChars[(n % 10) + 1]

RECURSIVE Decimal(_)
\* str(n) for n >= 0
Decimal(n) ==
    IF n < 10 THEN DigitChars[n + 1]
    ELSE Decimal(n \div 10) \o DigitChars[(n % 10) + 1]

\* d.isoformat(): YYYY-MM-DD
isoformat(y, m, d) == Padded(y, 4) \o "-" \o Padded(m, 2) \o "-" \o Padded(d, 2)

\* year, month and day in the given order, joined by sep, the year written
\* with 4 digits or with its last 2
Written(order, sep, width, y, m, d) ==
    LET yy == Padded(y, width)
        mm == Padded(m, 2)
        dd == Padded(d, 2)
    IN  CASE order = "YMD" -> yy \o sep \o mm \o sep \o dd
          [] order = "MDY" -> mm \o sep \o dd \o sep \o yy
          [] order = "DMY" -> dd \o sep \o mm \o sep \o yy

MaxMonth == 13
MaxDay == 32
MaxSerial == 150

IsoYears == {1899, 1900, 2024, 2100, 2101}

IsoInputs ==
    {isoformat(y, m, d) : y \in IsoYears, m \in 0..MaxMonth, d \in 0..MaxDay}

WrittenYears == {1950, 1969, 1999, 2000, 2005, 2068}
WrittenMonths == {1, 2, 5, 10, 13}
WrittenDays == {1, 2, 16, 20, 31}

WrittenInputs ==
    {Written(o, sep, w, y, m, d) :
        o \in {"YMD", "MDY", "DMY"}, sep \in {"/", "-", ".", ""},
        w \in {2, 4},
        y \in WrittenYears, m \in WrittenMonths, d \in WrittenDays}

SerialInputs == {Decimal(n) : n \in 0..MaxSerial}

\* serial numbers: the first, those around the fictitious leap day, around
\* the valid years read as numbers, the first and last day of 2000 and of
\* 2100, the next day, and small and large ones up to the last accepted
\* and past it
ExcelSerials == {0, 1, 59, 60, 61, 366, 1899, 1900, 2100, 2101, 9999, 10000,
                 36526, 36891, 73051, 73415, 73416, 99999, 1000000,
                 2958465, 2958466, 9999999}

\* the widths serial numbers are written with, zero-padded
SerialWidths == {1, 2, 3, 4, 5, 7}

\* n has no more than width digits
FitsWidth(n, width) == Len(Decimal(n)) <= width

ExcelInputs ==
    {Padded(t[1], t[2]) :
        t \in {t \in ExcelSerials \X SerialWidths : FitsWidth(t[1], t[2])}}

\* whole days since the epoch: the first days, both sides of the first
\* 9-digit and the first 10-digit second, of second 2^31, and the last days
UnixDays == {0, 1, 1157, 1158, 11574, 19723, 24855, 24856, 47481, 47482}

\* seconds into the day
UnixSeconds == {0, 1, 43200, 86399}

\* the second days * 86400 + secs after the epoch, written with the given
\* number of digits (9 or 10, zero-padded): the hundreds and the last two
\* digits are written apart
TimestampString(days, secs, width) ==
    Padded(days * 864 + secs \div 100, width - 2) \o Padded(secs % 100, 2)

\* the timestamp has no more digits than the width
TimestampFits(days, secs, width) ==
    width = 10 \/ days * 864 + secs \div 100 < 10000000

\* the days, seconds and widths of the timestamps that are parsed
UnixTimes ==
    {t \in UnixDays \X UnixSeconds \X {9, 10} :
        TimestampFits(t[1], t[2], t[3])}

UnixInputs == {TimestampString(t[1], t[2], t[3]) : t \in UnixTimes}

\* the largest day number written after a year
MaxJulianDay == 367

\* a common and a leap century year, a common and a leap year, and the
\* first and the last year of the valid range
JulianYears == {1900, 2000, 2023, 2024, 2100}

\* 10^w
PowerOfTen(w) == IF w = 1 THEN 10 ELSE IF w = 2 THEN 100 ELSE 1000

\* 'YYYY-N', N written with 1 to 3 digits
JulianInputs ==
    {Decimal(y) \o "-" \o Padded(t[1], t[2]) :
        y \in JulianYears,
        t \in {t \in (0..MaxJulianDay) \X (1..3) : t[1] < PowerOfTen(t[2])}}

RelativeWords == {"today", "now", "yesterday", "tomorrow", "last week",
                  "next week", "last month", "next month", "last year",
                  "next year"}

RECURSIVE upper(_)
\* str.upper()
upper(s) == IF s = "" THEN "" ELSE UpperChar(At(s, 1)) \o upper(From(s, 2))

RelativeInputs ==
    UNION {{w, upper(w), title(w)} : w \in RelativeWords}

\* the first and the last number written as a bare year
MinYearInput == 1895
MaxYearInput == 2105

\* 4-digit numbers in and around the valid years
YearInputs == {Decimal(y) : y \in MinYearInput..MaxYearInput}

\* the month/year-only layouts of the format table, in table order
MonthYearLayouts == <<"%B %Y", "%b %Y", "%Y-%m", "%m/%Y", "%m-%Y", "%m.%Y",
                      "%Y %B", "%Y %b", "%B, %Y">>

\* month m of year y written in a month/year-only layout, the month's
\* number with 2 digits if padded, the month's name capitalised
MonthYearWritten(layout, y, m, padded) ==
    LET Y == Decimal(y)
        n == IF padded THEN Padded(m, 2) ELSE Decimal(m)
        B == title(MONTH_NAMES[m])
        b == title(MONTH_ABBRS[m])
    IN  CASE layout = "%B %Y"  -> B \o " " \o Y
          [] layout = "%b %Y"  -> b \o " " \o Y
          [] layout = "%Y-%m"  -> Y \o "-" \o n
          [] layout = "%m/%Y"  -> n \o "/" \o Y
          [] layout = "%m-%Y"  -> n \o "-" \o Y
          [] layout = "%m.%Y"  -> n \o "." \o Y
          [] layout = "%Y %B"  -> Y \o " " \o B
          [] layout = "%Y %b"  -> Y \o " " \o b
          [] layout = "%B, %Y" -> B \o ", " \o Y

\* the first and the last valid year and two years between
MonthYearYears == {1900, 1990, 2024, 2100}

\* every month of those years in every month/year-only layout
MonthYearCases ==
    {[text |-> MonthYearWritten(MonthYearLayouts[k], y, m, p),
      layout |-> MonthYearLayouts[k], year |-> y, month |-> m] :
        k \in DOMAIN MonthYearLayouts, y \in MonthYearYears, m \in 1..12,
        p \in BOOLEAN}

MonthYearInputs == {c.text : c \in MonthYearCases}

\* strings of 8 digits: dates of the first and the last valid year and of
\* the years next to them in the three orders, and strings whose first
\* reading is a date of an early year
EightDigitInputs ==
    {"19000101", "21001231", "18991231", "21010101", "01011900", "31122100",
     "31121899", "01012101", "12312100", "12311899", "02292024", "29022024",
     "20240229", "29022023", "12011201", "10011231", "19001231", "20001231",
     "10121012", "12121212", "00010101", "99991231"}

\* a weekday name as it is written before a date
WeekdayPrefixes == {"Mon ", "Monday, ", "Sat, ", "sunday "}

\* Unix timestamps: the epoch, 2000-01-01 and 2023-11-14
WeekdayTimestamps == {"0", "946684800", "1700000000"}

\* a weekday name followed by a Unix timestamp
WeekdayUnixInputs ==
    {p \o t : p \in WeekdayPrefixes, t \in WeekdayTimestamps}

\* the full and the abbreviated English month names
MonthWords ==
    {MONTH_NAMES[i] : i \in DOMAIN MONTH_NAMES}
      \cup {MONTH_ABBRS[i] : i \in DOMAIN MONTH_ABBRS}

\* a date of 2023 written with the month's name: natural, compact and
\* month-and-year forms
MonthWritten(k, name) ==
    CASE k = 1 -> name \o " 25, 2023"
      [] k = 2 -> "25" \o name \o "2023"
      [] k = 3 -> "25 " \o name \o " 2023"
      [] k = 4 -> name \o " 2023"
      [] k = 5 -> "2023 " \o name
      [] k = 6 -> name \o ", 2023"

\* each form with each month name in lower case, capitalised and in upper
\* case
MonthNameInputs ==
    {MonthWritten(k, name) :
        k \in 1..6,
        name \in UNION {{w, title(w), upper(w)} : w \in MonthWords}}

RECURSIVE Repeat(_, _)
\* s * n
Repeat(s, n) ==
    IF n = 0 THEN ""
    ELSE IF n % 2 = 1 THEN s \o Repeat(s, n - 1)
    ELSE Repeat(s \o s, n \div 2)

\* the number of spaces written after a date
MaxPadding == 995

\* strings of more than MAX_INPUT_LENGTH characters: digits, spaces, and a
\* date followed or preceded by spaces
LongInputs ==
    {Repeat("1", MAX_INPUT_LENGTH + 1),
     Repeat(" ", MAX_INPUT_LENGTH + 1),
     "2024-01-01" \o Repeat(" ", MaxPadding),
     Repeat(" ", MaxPadding) \o "2024-01-01",
     Repeat("x", MAX_INPUT_LENGTH + 1) \o " "}

\* arguments that are no str: None, an int, a float, a bytes and a list
NonStrInputs ==
    {[type |-> "NoneType", value |-> "None"],
     [type |-> "int", value |-> "-19900101"],
     [type |-> "float", value |-> "12.5"],
     [type |-> "bytes", value |-> "b'1990-01-01'"],
     [type |-> "list", value |-> "[]"]}

OtherInputs ==
    {"", "   ", "hello", "not a date", "12/25", "Feb 30, 2023",
     "25 Dec 1990", "Dec 25, 1990", "December 25, 1990", "25th of December 1990",
     "December 25th, 1990", "25DEC2023", "  2023-12-25  ",
     "Monday, December 25, 2023", "Mon 25 Dec 2023",
     "2023-12-25T10:30:00", "2023-12-25 10:30:00", "2023-12-25 10:30:60",
     "December 2023", "2023-12", "12/2023", "1990", "1899", "2101",
     "2023-366", "2024-366", "2023-10", "2023-Q4", "0000-Q1", "0000-1",
     "2023-W01-1", "0", "659318400", "4102444800", "9999999999",
     "1122000", "2958465", "2958466", "3012000", "20100110", "12011201",
     "00000000", "99999999", "2023-13-01", "2023-02-30", "01/01/90",
     "12/25/90", "12/25/49", "251098", "102598"}

StringInputs ==
    IsoInputs \cup WrittenInputs \cup SerialInputs \cup ExcelInputs
      \cup UnixInputs
      \cup JulianInputs \cup YearInputs \cup MonthYearInputs
      \cup MonthNameInputs
      \cup EightDigitInputs \cup WeekdayUnixInputs \cup RelativeInputs
      \cup LongInputs \cup OtherInputs

\* the dates the host's clock shows when a relative phrase is parsed
Clocks == {date(2024, 3, 15), date(2024, 2, 29), date(1900, 1, 3),
           date(2100, 12, 20)}

ParseInit ==
    /\ pc = "call"
    /\ date_str \in {PyStr(s) : s \in StringInputs} \cup NonStrInputs
    /\ clock \in Clocks
    /\ (clock = date(2024, 3, 15) \/ date_str.value \in RelativeInputs)
    /\ parsed = None
    /\ returned_by = ""
    /\ format_index = 0
    /\ birthday = None
    /\ today = None
    /\ age_data = NoAge

\* the call returns r
Returns(r) ==
    /\ parsed' = r.date
    /\ returned_by' = r.by
    /\ format_index' = r.index

ParseDate ==
    /\ pc = "call"
    /\ Returns(ParseDateVia(date_str, clock))
    /\ pc' = "return"
    /\ UNCHANGED <<date_str, clock, birthday, today, age_data>>

Spec == ParseInit /\ [][ParseDate]_vars

(***************************************************************************)
(* Calls of calculate_age: birthdays from a window that holds a whole leap *)
(* year, reference dates from the day before it to three years on and from *)
(* the end of February of 2100, a century year that is no leap year.       *)
(***************************************************************************)
BirthWindowDays == 400
TodayWindowDays == 1100
CenturyWindowDays == 12

FirstBirthday == date(2004, 1, 1)
FirstCenturyDay == date(2100, 2, 24)

Birthdays ==
    {AddDays(FirstBirthday, i) : i \in 0..(BirthWindowDays - 1)}

Todays ==
    {AddDays(FirstBirthday, i - 1) : i \in 0..(TodayWindowDays - 1)}
      \cup {AddDays(FirstCenturyDay, i) : i \in 0..(CenturyWindowDays - 1)}

\* pairs of a birthday and a reference date many years apart
AgeExamples ==
    {<<date(2000, 2, 29), date(2025, 3, 1)>>,
     <<date(2024, 1, 31), date(2025, 2, 28)>>,
     <<date(2000, 2, 29), date(2025, 2, 28)>>,
     <<date(1990, 5, 15), date(2024, 5, 15)>>,
     <<date(2004, 2, 29), date(2007, 3, 1)>>,
     <<date(1900, 1, 1), date(2100, 12, 31)>>}

AgeInit ==
    /\ pc = "call"
    /\ \/ birthday \in Birthdays /\ today \in Todays
       \/ \E e \in AgeExamples : birthday = e[1] /\ today = e[2]
    /\ age_data = NoAge
    /\ date_str = PyStr("")
    /\ clock = None
    /\ parsed = None
    /\ returned_by = ""
    /\ format_index = 0

CalculateAge ==
    /\ pc = "call"
    /\ age_data' = calculate_age(birthday, today)
    /\ pc' = "return"
    /\ UNCHANGED <<date_str, clock, parsed, returned_by, format_index,
                   birthday, today>>

SpecAge == AgeInit /\ [][CalculateAge]_vars

(***************************************************************************)
(* Properties of parse_date, checked under Spec                            *)
(***************************************************************************)
\* C1: whenever parse_date returns a date, its year is in 1900..2100,
\* whichever strategy of the cascade produced it.
C1_YearInRange ==
    (pc = "return" /\ IsDate(parsed)) => parsed.year \in 1900..2100

\* a date of the last admitted year, returned by a strategy other than the
\* format table
C1_LastYearReturned ==
    /\ pc = "return"
    /\ IsDate(parsed)
    /\ parsed.year = 2100
    /\ returned_by = "relative"

\* C2: parse_date never raises for a string: the outcome is a date or None,
\* and None for empty, blank, malformed and calendar-invalid inputs such as
\* "Feb 30, 2023" or "2023-13-01".
C2_NeverRaises ==
    pc = "return" =>
        /\ parsed.kind \in {"date", "None"}
        /\ date_str.value \in {"", "   ", "hello", "Feb 30, 2023",
                               "2023-13-01", "2023-02-30"}
             => parsed = None

\* "Feb 30, 2023" has gone through the whole cascade and come out as None
C2_InvalidDayIsNone ==
    /\ pc = "return"
    /\ date_str.value = "Feb 30, 2023"
    /\ returned_by = "exhausted"
    /\ parsed = None

\* the date a string of the shape dddd-dd-dd writes, None for another shape
\* and a ValueError where the fields form no date
IsoDateOf(v) ==
    IF /\ Len(v) = 10
       /\ AllDigits(Sub(v, 1, 4)) /\ At(v, 5) = "-"
       /\ AllDigits(Sub(v, 6, 7)) /\ At(v, 8) = "-"
       /\ AllDigits(Sub(v, 9, 10))
    THEN date(int(Sub(v, 1, 4)), int(Sub(v, 6, 7)), int(Sub(v, 9, 10)))
    ELSE None

\* the argument is the ISO rendering of the calendar date d
IsIsoOf(d) ==
    IsDate(d) /\ date_str.value = isoformat(d.year, d.month, d.day)

\* C4 as stated: for every valid calendar date d, parse_date of d written
\* as YYYY-MM-DD returns d.
C4_IsoRoundTripAnyYear ==
    pc = "return" =>
        LET d == IsoDateOf(date_str.value)
        IN  IsIsoOf(d) => parsed = d

\* C4: for every valid calendar date d with a year in 1900..2100,
\* parse_date of d written as YYYY-MM-DD returns d; with a year outside that
\* range it returns None.
C4_IsoRoundTripInRange ==
    pc = "return" =>
        LET d == IsoDateOf(date_str.value)
        IN  IsIsoOf(d) =>
                IF d.year \in 1900..2100 THEN parsed = d ELSE parsed = None

\* February 29 of a leap year, written in ISO form, has come back
C4_LeapDayRoundTrip ==
    /\ pc = "return"
    /\ date_str.value = isoformat(2024, 2, 29)
    /\ parsed = date(2024, 2, 29)

\* the call read a bare two-digit year: a %y layout of the format table, or
\* a reading of six compact digits
TwoDigitYearRead ==
    \/ /\ returned_by = "table"
       /\ \E i \in 1..Len(DATE_FORMATS[format_index]) :
              Sub(DATE_FORMATS[format_index], i, i + 1) = "%y"
    \/ /\ returned_by = "compact"
       /\ Len(strip(date_str.value)) = 6

\* C6: wherever parse_date reads a bare two-digit year, 00-49 gives
\* 2000-2049 and 50-99 gives 1950-1999, in the compact strategy and in the
\* two-digit-year layouts of the format table alike.
C6_PivotAtFifty ==
    (pc = "return" /\ IsDate(parsed) /\ TwoDigitYearRead) =>
        LET yy == parsed.year % 100
        IN  parsed.year = IF yy < 50 THEN 2000 + yy ELSE 1900 + yy

\* the order of the strategies as the cascade is described
StrategyOrder == <<"unix", "relative", "julian", "excel", "fiscal",
                   "special", "compact", "table">>

Stripped == strip(date_str.value)

Cleaned == replace(DayNameSub(Stripped), "T", " ")

\* what the i-th strategy of StrategyOrder, not the format table, yields
\* for the stripped input and its cleaned form
YieldedFor(i, stripped, clean_str) ==
    StrategyHit(StrategyOrder[i], stripped, clean_str, clock).date

Yielded(i) == YieldedFor(i, Stripped, Cleaned)

\* what the j-th layout of the format table reads the text as
LayoutDateOf(text, j) == _try_strptime(text, DateFormatTokens[j])

\* what the j-th layout of the format table reads the input as
LayoutDate(j) == LayoutDateOf(title(Cleaned), j)

\* the pattern of the j-th layout fits the whole input, whether or not the
\* fields it takes form a date
LayoutFits(j) ==
    LET r == MatchFrom(DateFormatTokens[j], 1, title(Cleaned), 1, NoCaptures)
    IN  r.ok /\ r.end = Len(title(Cleaned)) + 1

\* the place in StrategyOrder of the strategy that returned, one past the
\* end when every strategy passed
ReturnedAt ==
    IF returned_by = "exhausted" THEN Len(StrategyOrder) + 1
    ELSE CHOOSE i \in 1..Len(StrategyOrder) : StrategyOrder[i] = returned_by

CascadeRan == pc = "return" /\ returned_by \notin {"not_str", "rejected"}

\* no strategy before the one that returned yields a date, and that one's
\* date, held to the year range, is the outcome
FirstStrategyDecidesFor(stripped, clean_str) ==
    /\ \A i \in 1..(Len(StrategyOrder) - 1) :
          /\ i < ReturnedAt => YieldedFor(i, stripped, clean_str) = None
          /\ i = ReturnedAt =>
                /\ YieldedFor(i, stripped, clean_str) # None
                /\ parsed = _validate_date_bounds(
                                YieldedFor(i, stripped, clean_str))
    /\ returned_by = "exhausted" => parsed = None

FirstStrategyDecides == FirstStrategyDecidesFor(Stripped, Cleaned)

\* within the format table the first layout that reads the text as a
\* calendar date is the one that returned, and none does when the cascade
\* is exhausted
FirstLayoutDecides(text) ==
    /\ returned_by = "table" =>
          /\ LayoutDateOf(text, format_index) # None
          /\ \A j \in 1..(format_index - 1) : LayoutDateOf(text, j) = None
          /\ parsed = _validate_date_bounds(
                          TableDate(LayoutDateOf(text, format_index),
                                    DATE_FORMATS[format_index]))
    /\ returned_by = "exhausted" =>
          \A j \in 1..Len(DATE_FORMATS) : LayoutDateOf(text, j) = None

\* C9 as stated: the strategies are tried in the fixed order and the first
\* that yields a date decides; within the format table the first layout, in
\* table order, whose pattern fits the input is the one that wins.
C9_FirstFittingLayoutWins ==
    CascadeRan =>
        /\ FirstStrategyDecides
        /\ returned_by = "table" =>
              /\ LayoutFits(format_index)
              /\ \A j \in 1..(format_index - 1) : ~LayoutFits(j)

\* C9: the strategies are tried in the order Unix timestamp, relative
\* keyword, Julian day-of-year, Excel serial, fiscal quarter, ordinal or
\* "day of month", compact numeric, format table, and the first that yields
\* a date decides the outcome; within the format table the first layout, in
\* table order, that reads the input as a calendar date wins, a layout whose
\* pattern fits fields that form no date being passed over.
C9_FirstStrategyFirstLayout ==
    CascadeRan =>
        /\ FirstStrategyDecides
        /\ FirstLayoutDecides(title(Cleaned))

\* "01/02/2000" read month-first by the fifth layout, %m/%d/%Y
C9_MonthFirstWins ==
    /\ pc = "return"
    /\ date_str.value = "01/02/2000"
    /\ returned_by = "table"
    /\ format_index = 5
    /\ parsed = date(2000, 1, 2)

\* the first of the three readings of eight digits that is a calendar date
FirstReading(s) ==
    LET ymd == date(int(Sub(s, 1, 4)), int(Sub(s, 5, 6)), int(Sub(s, 7, 8)))
        dmy == date(int(Sub(s, 5, 8)), int(Sub(s, 3, 4)), int(Sub(s, 1, 2)))
        mdy == date(int(Sub(s, 5, 8)), int(Sub(s, 1, 2)), int(Sub(s, 3, 4)))
    IN  IF IsDate(ymd) THEN ymd
        ELSE IF IsDate(dmy) THEN dmy
        ELSE IF IsDate(mdy) THEN mdy
        ELSE None

\* C10: for a string of eight digits the compact strategy gives the
\* YYYYMMDD reading if that is a calendar date, else the DDMMYYYY reading,
\* else the MMDDYYYY reading; parse_date returns it when its year is in
\* range, and the compact strategy gives nothing when no reading is a date.
C10_EightDigitOrder ==
    (pc = "return" /\ Len(Stripped) = 8 /\ AllDigits(Stripped)) =>
        LET first == FirstReading(Stripped)
        IN  IF first = None THEN returned_by # "compact"
            ELSE /\ returned_by = "compact"
                 /\ parsed = IF first.year \in 1900..2100 THEN first
                             ELSE None

\* "16052005" is no YYYYMMDD date and has been read day-first
C10_DayFirstReadingTaken ==
    /\ pc = "return"
    /\ date_str.value = "16052005"
    /\ returned_by = "compact"
    /\ parsed = date(2005, 5, 16)

(***************************************************************************)
(* Properties of calculate_age, checked under SpecAge                      *)
(***************************************************************************)
AgeReturned == pc = "return" /\ age_data.status = "AgeResult"

\* C3: calculate_age raises ValueError "Birthday cannot be in the future."
\* exactly when the birthday lies after the reference date, also by a
\* single day; for every other pair, the equal one included, it returns an
\* AgeResult counted between the two dates as they were given.
C3_FutureBirthIffLater ==
    pc = "return" =>
        LET later == toordinal(birthday) > toordinal(today)
        IN  /\ later <=>
                  (age_data.status = "ValueError"
                   /\ age_data.message = "Birthday cannot be in the future.")
            /\ ~later =>
                  /\ age_data.status = "AgeResult"
                  /\ age_data.total_days
                       = toordinal(today) - toordinal(birthday)

\* a birthday one day after the reference date has been refused
C3_OneDayLaterRefused ==
    /\ pc = "return"
    /\ toordinal(birthday) = toordinal(today) + 1
    /\ age_data.status = "ValueError"

\* the date n months after the month of d, on d's day of the month or on
\* the last day of that month when it is shorter
MonthsOn(d, n) ==
    LET months == d.year * 12 + (d.month - 1) + n
        y == months \div 12
        m == (months % 12) + 1
    IN  date(y, m, IF d.day < DaysInMonth(y, m) THEN d.day
                   ELSE DaysInMonth(y, m))

\* C5: for birth <= reference, going from birth on by the returned years,
\* then the returned months (to birth's day of the month, or to the last
\* day of a shorter month), then the returned days, ends on the reference.
C5_PartsRecombine ==
    AgeReturned =>
        AddDays(MonthsOn(birthday, 12 * age_data.years + age_data.months),
                age_data.days) = today

\* a birthday on the 31st, counted up to a day after a month too short to
\* hold it
C5_ShortMonthCrossed ==
    /\ AgeReturned
    /\ birthday.day = 31
    /\ today.month = 3 /\ today.day = 1
    /\ age_data.months > 0
    /\ age_data.days > 0

\* birth's month and day in year y, February 29 moved to February 28 when y
\* is no leap year
Transplanted(b, y) ==
    IF b.month = 2 /\ b.day = 29 /\ ~isleap(y) THEN date(y, 2, 28)
    ELSE date(y, b.month, b.day)

\* C7: for birth <= reference, next_birthday_in_days is 0 exactly when the
\* reference date is birth's month and day in the reference's year, with
\* February 29 read as February 28 in a year that is no leap year.
C7_ZeroIffBirthday ==
    AgeReturned =>
        ((age_data.next_birthday_in_days = 0)
            <=> (today = Transplanted(birthday, today.year)))

\* a February 29 birthday met on February 28 of a year that is no leap year
C7_LeapBirthdayOnFeb28 ==
    /\ AgeReturned
    /\ birthday.month = 2 /\ birthday.day = 29
    /\ today.month = 2 /\ today.day = 28 /\ ~isleap(today.year)
    /\ age_data.next_birthday_in_days = 0

\* C8: every AgeResult has years >= 0, months in 0..11, days in 0..30 and
\* total_days >= 0.
C8_PartsInRange ==
    AgeReturned =>
        /\ age_data.years >= 0
        /\ age_data.months \in 0..11
        /\ age_data.days \in 0..30
        /\ age_data.total_days >= 0

\* an AgeResult at the upper ends: 11 months and 30 days
C8_UpperEndsReached ==
    /\ AgeReturned
    /\ age_data.months = 11
    /\ age_data.days = 30

\* ---- C11 ----
\* C11: for the input '0' or a 9-10 digit string whose value t is in
\* [0, 4102444800], parse_date returns 1970-01-01 plus floor(t / 86400)
\* days, whatever the host's clock and zone; '0' gives 1970-01-01.
C11_TimestampIsUtcDate ==
    (pc = "return" /\ date_str.value \in UnixInputs \cup {"0"}) =>
        /\ date_str.value = "0" => parsed = date(1970, 1, 1)
        /\ \A t \in UnixTimes :
             /\ date_str.value = TimestampString(t[1], t[2], t[3])
             /\ (t[1] < MAX_TIMESTAMP_DAYS
                   \/ (t[1] = MAX_TIMESTAMP_DAYS /\ t[2] = 0))
             => /\ returned_by = "unix"
                /\ parsed = AddDays(date(1970, 1, 1), t[1])

\* the last second of 2038-01-20, past 2^31 seconds, is read as that day
C11_LastSecondOfDay ==
    /\ pc = "return"
    /\ date_str.value = TimestampString(24856, 86399, 10)
    /\ parsed = date(2038, 1, 20)

\* ---- C12 ----
\* the length of year y: 366 days in a Gregorian leap year, else 365
YearLength(y) ==
    IF y % 4 = 0 /\ (y % 100 # 0 \/ y % 400 = 0) THEN 366 ELSE 365

\* d is the n-th day of year y
IsDayOfYear(d, y, n) ==
    /\ IsDate(d)
    /\ d.year = y
    /\ DaysBeforeMonth(y, d.month) + d.day = n

\* C12: for the input 'YYYY-N', YYYY in 1900..2100 and N of 1 to 3 digits,
\* parse_date returns the N-th day of year YYYY when 1 <= N <= 365 (366 in
\* a leap year), and no match when N is 0 or beyond the year's length.
C12_DayOfYear ==
    (pc = "return" /\ date_str.value \in JulianInputs) =>
        LET y == int(Sub(date_str.value, 1, 4))
            n == int(From(date_str.value, 6))
        IN  IF 1 <= n /\ n <= YearLength(y)
            THEN IsDayOfYear(parsed, y, n)
            ELSE parsed = None

\* day 366 of the leap year 2024 is its last day
C12_LeapYearLastDay ==
    /\ pc = "return"
    /\ date_str.value = "2024-366"
    /\ returned_by = "julian"
    /\ parsed = date(2024, 12, 31)

\* ---- C13 ----
\* C13: the outcome of parse_date does not depend on the letter case of a
\* month name: an input with a full or abbreviated month name in any case
\* parses to the same outcome as the input with the name capitalised.
C13_MonthNameCaseIgnored ==
    (pc = "return" /\ date_str.value \in MonthNameInputs) =>
        parsed = parse_date(PyStr(title(date_str.value)), clock)

\* ---- C14 ----
\* C14: relative keywords are matched case-insensitively against the whole
\* cleaned string: every upper/lower-case variant of a keyword parses to
\* the same date as the lower-case keyword.
C14_KeywordCaseIgnored ==
    (pc = "return" /\ date_str.value \in RelativeInputs) =>
        parsed = parse_date(PyStr(lower(date_str.value)), clock)

\* ---- C15 ----
\* C15: parse_date returns no match for every input string longer than
\* 1000 characters, immediately and before running any strategy.
C15_LongInputRejected ==
    (pc = "return" /\ date_str.type = "str" /\ Len(date_str.value) > 1000) =>
        (parsed = None /\ returned_by = "rejected")

\* ---- C16 ----
\* C16: an argument of parse_date that is no string surfaces as an
\* exception, an outcome distinct from the no match of unparseable strings.
C16_NonStringRaises ==
    (pc = "return" /\ date_str.type # "str") => IsException(parsed)

\* ---- C17 ----
\* the days a keyword is away from today
KeywordOffset(k) ==
    CASE k \in {"today", "now"} -> 0
      [] k = "yesterday"  -> -1
      [] k = "tomorrow"   -> 1
      [] k = "last week"  -> -7
      [] k = "next week"  -> 7
      [] k = "last month" -> -30
      [] k = "next month" -> 30
      [] k = "last year"  -> -365
      [] k = "next year"  -> 365

\* the day the keyword of the input names, counted from the clock's date
KeywordDay == AddDays(clock, KeywordOffset(date_str.value))

\* C17 as stated: each relative keyword resolves to today plus its fixed
\* number of days (0, -/+ 1, -/+ 7, -/+ 30, -/+ 365).
C17_FixedOffsets ==
    (pc = "return" /\ date_str.value \in RelativeWords) =>
        parsed = KeywordDay

\* C17: each relative keyword resolves to today plus its fixed number of
\* days (0, -/+ 1, -/+ 7, -/+ 30, -/+ 365), never adjusted to the calendar
\* month or the leap year, when the year of that day is in 1900..2100; a
\* day outside that range is no match.
C17_FixedOffsetsInRange ==
    (pc = "return" /\ date_str.value \in RelativeWords) =>
        IF /\ IsDate(KeywordDay)
           /\ KeywordDay.year \in MIN_VALID_YEAR..MAX_VALID_YEAR
        THEN returned_by = "relative" /\ parsed = KeywordDay
        ELSE parsed = None

\* 365 days before 2024-03-15, across a leap day, is 2023-03-16
C17_LastYearAcrossLeapDay ==
    /\ pc = "return"
    /\ date_str.value = "last year"
    /\ clock = date(2024, 3, 15)
    /\ parsed = date(2023, 3, 16)

\* ---- C18 ----
\* C18: a string of 4 digits whose value Y is in 1900..2100 is not read as
\* an Excel serial number: parse_date returns January 1 of year Y.
C18_BareYearIsJanuaryFirst ==
    (/\ pc = "return"
     /\ date_str.value \in YearInputs
     /\ int(date_str.value) \in 1900..2100) =>
        /\ returned_by # "excel"
        /\ parsed = date(int(date_str.value), 1, 1)

\* '1900' is the first of January 1900, read by the format table
C18_FirstYearRead ==
    /\ pc = "return"
    /\ date_str.value = "1900"
    /\ returned_by = "table"
    /\ parsed = date(1900, 1, 1)

BeforeBirthday(b, t) ==
    IF t.month < b.month \/ (t.month = b.month /\ t.day < b.day)
    THEN 1 ELSE 0

\* [t.day < b.day]
BeforeBirthDay(b, t) == IF t.day < b.day THEN 1 ELSE 0

\* C20: for birth <= reference, years = reference.year - birth.year -
\* [(reference.month, reference.day) < (birth.month, birth.day)], months =
\* (reference.month - birth.month - [reference.day < birth.day]) mod 12,
\* and 12 * years + months = 12 * (reference.year - birth.year) +
\* (reference.month - birth.month) - [reference.day < birth.day].
C20_WholeMonthsElapsed ==
    AgeReturned =>
        /\ age_data.years =
             today.year - birthday.year - BeforeBirthday(birthday, today)
        /\ age_data.months =
             (today.month - birthday.month
                - BeforeBirthDay(birthday, today)) % 12
        /\ 12 * age_data.years + age_data.months =
             12 * (today.year - birthday.year)
               + (today.month - birthday.month)
               - BeforeBirthDay(birthday, today)

\* in the birthday's month before its day, a year later: 0 years 11 months
C20_MonthBorrowedFromYear ==
    /\ AgeReturned
    /\ today.year = birthday.year + 1
    /\ today.month = birthday.month
    /\ today.day < birthday.day
    /\ age_data.years = 0
    /\ age_data.months = 11

\* ---- C21 ----
\* the last day of the month before the month of t
LastDayBefore(t) ==
    IF t.month = 1 THEN date(t.year - 1, 12, 31)
    ELSE date(t.year, t.month - 1, DaysInMonth(t.year, t.month - 1))

\* the day of the month before t's month with the number of b's day, or
\* that month's last day if it is shorter
AnniversaryBefore(b, t) ==
    LET last == LastDayBefore(t)
    IN  date(last.year, last.month,
             IF b.day < last.day THEN b.day ELSE last.day)

\* C21: for birth <= reference, days = reference.day - birth.day when
\* reference.day >= birth.day, else the day count to the reference from
\* the day min(birth.day, last day) of the month before the reference's;
\* 2000-02-29 to 2025-03-01 is 25 years 0 months 1 day and 2024-01-31 to
\* 2025-02-28 is 1 year 0 months 28 days.
C21_DaysSinceMonthlyAnniversary ==
    AgeReturned =>
        /\ age_data.days =
             IF today.day >= birthday.day THEN today.day - birthday.day
             ELSE toordinal(today) - toordinal(AnniversaryBefore(birthday, today))
        /\ (birthday = date(2000, 2, 29) /\ today = date(2025, 3, 1)) =>
             (age_data.years = 25 /\ age_data.months = 0 /\ age_data.days = 1)
        /\ (birthday = date(2024, 1, 31) /\ today = date(2025, 2, 28)) =>
             (age_data.years = 1 /\ age_data.months = 0 /\ age_data.days = 28)

\* born on January 31, seen on February 28 of the next year: the
\* anniversary of the month before is January 31, 28 days back
C21_JanuaryThirtyFirst ==
    /\ AgeReturned
    /\ birthday = date(2024, 1, 31)
    /\ today = date(2025, 2, 28)
    /\ age_data.days = 28

\* ---- C22 ----
\* the anniversary next_birthday_in_days counts to: the one of the
\* reference's year if it is on or after the reference, else the next
\* year's
AnniversaryAhead(b, t) ==
    IF toordinal(Transplanted(b, t.year)) >= toordinal(t)
    THEN Transplanted(b, t.year)
    ELSE Transplanted(b, t.year + 1)

\* C22: for birth <= reference, next_birthday_in_days is the day count from
\* the reference to the anniversary in the reference's year if that is on
\* or after the reference, else to the anniversary a year later, a
\* February 29 birth having its anniversary on February 28 in a year that
\* is no leap year.
C22_CountdownToAnniversary ==
    AgeReturned =>
        age_data.next_birthday_in_days =
            toordinal(AnniversaryAhead(birthday, today)) - toordinal(today)

\* born on February 29, seen the day after February 28 of 2005: the next
\* anniversary is February 28 of 2006, 364 days ahead
C22_LeapBirthdayJustPassed ==
    /\ AgeReturned
    /\ birthday = date(2004, 2, 29)
    /\ today = date(2005, 3, 1)
    /\ age_data.next_birthday_in_days = 364

\* ---- C23 ----
\* the calendar date of a 2-digit year (00-49 in 20yy, 50-99 in 19yy), a
\* month and a day, None if there is no such date
ShortYearDate(yy, m, d) ==
    IF m \in 1..12 /\ d >= 1
         /\ d <= DaysInMonth((IF yy < 50 THEN 2000 ELSE 1900) + yy, m)
    THEN date((IF yy < 50 THEN 2000 ELSE 1900) + yy, m, d)
    ELSE None

\* the three pairs of digits of a 6-digit string, as numbers
Pair(s, k) == int(Sub(s, 2 * k - 1, 2 * k))

ReadMMDDYY(s) == ShortYearDate(Pair(s, 3), Pair(s, 1), Pair(s, 2))
ReadDDMMYY(s) == ShortYearDate(Pair(s, 3), Pair(s, 2), Pair(s, 1))
ReadYYMMDD(s) == ShortYearDate(Pair(s, 1), Pair(s, 2), Pair(s, 3))

\* the input is a string of 6 digits
SixDigits ==
    /\ pc = "return"
    /\ date_str.type = "str"
    /\ Len(Stripped) = 6
    /\ AllDigits(Stripped)

\* C23 as stated: for a 6-digit string the compact strategy gives the
\* MMDDYY reading if that is a calendar date, else the DDMMYY reading if
\* that is one, and else no date: no other 6-digit layout is tried.
C23_TwoSixDigitReadings ==
    SixDigits =>
        IF ReadMMDDYY(Stripped) # None
        THEN returned_by = "compact" /\ parsed = ReadMMDDYY(Stripped)
        ELSE IF ReadDDMMYY(Stripped) # None
        THEN returned_by = "compact" /\ parsed = ReadDDMMYY(Stripped)
        ELSE returned_by # "compact"

\* C23: for a 6-digit string the compact strategy gives the MMDDYY reading
\* if that is a calendar date, else the DDMMYY reading if that is one,
\* else the YYMMDD reading if that is one, and else no date.
C23_ThreeSixDigitReadings ==
    SixDigits =>
        IF ReadMMDDYY(Stripped) # None
        THEN returned_by = "compact" /\ parsed = ReadMMDDYY(Stripped)
        ELSE IF ReadDDMMYY(Stripped) # None
        THEN returned_by = "compact" /\ parsed = ReadDDMMYY(Stripped)
        ELSE IF ReadYYMMDD(Stripped) # None
        THEN returned_by = "compact" /\ parsed = ReadYYMMDD(Stripped)
        ELSE returned_by # "compact"

\* '251098' is no month-first date and is read day-first
C23_DayFirstSecond ==
    /\ pc = "return"
    /\ date_str.value = "251098"
    /\ returned_by = "compact"
    /\ parsed = date(1998, 10, 25)

\* ---- C24 ----
\* the input is a string of 1 to 5 or of 7 digits with a value of 1 or
\* more, and no 4-digit string with a value in 1900..2100
SerialWritten ==
    /\ pc = "return"
    /\ date_str.value \in SerialInputs \cup ExcelInputs
    /\ int(date_str.value) >= 1
    /\ ~(Len(date_str.value) = 4 /\ int(date_str.value) \in 1900..2100)

\* 1899-12-31 plus s days for s < 60, plus s - 1 days from 60 on
SerialDay(s) == AddDays(date(1899, 12, 31), IF s < 60 THEN s ELSE s - 1)

\* the Excel strategy yields the day of the input's serial number, which
\* parse_date returns when its year is at most 2100
SerialDayYielded ==
    /\ returned_by = "excel"
    /\ _parse_excel_serial(date_str.value) = SerialDay(int(date_str.value))
    /\ SerialDay(int(date_str.value)).year <= 2100
         => parsed = SerialDay(int(date_str.value))

C25_WeekdayBeforeTimestamp ==
    pc = "return" =>
        \A p \in WeekdayPrefixes, t \in WeekdayTimestamps :
            date_str.value = p \o t
                => parsed = parse_date(PyStr(t), clock)

\* ---- C26 ----
\* C26: whenever next_birthday_in_days is 0 the age is a whole number of
\* years, months = 0 and days = 0, also for a February 29 birth seen on
\* February 28 of a year that is no leap year.
C26_BirthdayIsWholeYears ==
    (AgeReturned /\ age_data.next_birthday_in_days = 0) =>
        (age_data.months = 0 /\ age_data.days = 0)

\* ---- C27 ----
\* d is a date with a year outside 1900..2100
OutOfRange(d) == IsDate(d) /\ d.year \notin 1900..2100

RECURSIVE FirstYieldFrom(_, _, _)
RECURSIVE FirstYieldStep(_, _, _, _)
\* the first strategy before the format table, from the i-th on, that
\* yields a date, with that date as the strategy gives it; place 0 if none
\* does
FirstYieldFrom(i, stripped, clean_str) ==
    IF i >= Len(StrategyOrder) THEN [at |-> 0, date |-> None]
    ELSE FirstYieldStep(i, stripped, clean_str,
                        YieldedFor(i, stripped, clean_str))

\* d is what the i-th strategy yields
FirstYieldStep(i, stripped, clean_str, d) ==
    IF d # None THEN [at |-> i, date |-> d]
    ELSE FirstYieldFrom(i + 1, stripped, clean_str)

\* the date of the layout of the format table that returned
ReturningLayoutDate ==
    TableDate(LayoutDate(format_index), DATE_FORMATS[format_index])

\* if the date of the first strategy that yields one is out of range, the
\* call returns no match from that strategy; if no strategy before the
\* format table yields a date and the layout that is taken gives a date out
\* of range, the call returns no match from the table
RejectedAt(first) ==
    /\ OutOfRange(first.date) =>
          (parsed = None /\ returned_by = StrategyOrder[first.at])
    /\ first.at = 0 => returned_by \in {"table", "exhausted"}
    /\ (returned_by = "table" /\ OutOfRange(ReturningLayoutDate)) =>
          parsed = None

\* C27: when the first strategy in cascade order that yields a date (the
\* format table with its first matching layout) yields one with a year
\* outside 1900..2100, parse_date returns no match at once and tries no
\* later strategy or layout, even when a later one would yield a date in
\* range.
C27_RejectionIsFinal ==
    CascadeRan => RejectedAt(FirstYieldFrom(1, Stripped, Cleaned))

\* '1122000' is serial 1122000 for the Excel strategy, a day of the year
\* 4971, and no match, though the format table reads it as 11-2-2000
C27_SerialHidesTableDate ==
    /\ pc = "return"
    /\ date_str.value = "1122000"
    /\ returned_by = "excel"
    /\ parsed = None
    /\ OutOfRange(Yielded(4))
    /\ Yielded(8) = date(2000, 2, 11)

\* ---- C28 ----
\* the YYYYMMDD, DDMMYYYY and MMDDYYYY readings of a string of 8 digits
EightDigitReadings(s) ==
    {date(int(Sub(s, 1, 4)), int(Sub(s, 5, 6)), int(Sub(s, 7, 8))),
     date(int(Sub(s, 5, 8)), int(Sub(s, 3, 4)), int(Sub(s, 1, 2))),
     date(int(Sub(s, 5, 8)), int(Sub(s, 1, 2)), int(Sub(s, 3, 4)))}

\* C28: for a string of 8 digits, if any of the readings YYYYMMDD,
\* DDMMYYYY, MMDDYYYY is a calendar date with a year in 1900..2100,
\* parse_date returns a date: rejecting the first valid reading for its
\* year never hides a later reading that is in range.
C28_InRangeReadingNeverHidden ==
    (pc = "return" /\ date_str.type = "str"
       /\ Len(Stripped) = 8 /\ AllDigits(Stripped)) =>
        ((\E r \in EightDigitReadings(Stripped) :
              IsDate(r) /\ r.year \in 1900..2100)
            => IsDate(parsed))

\* '31122100' is a date of the last valid year in the day-first reading
\* only, and is returned
C28_LastYearDayFirst ==
    /\ pc = "return"
    /\ date_str.value = "31122100"
    /\ returned_by = "compact"
    /\ parsed = date(2100, 12, 31)

\* ---- C29 ----
\* the date of serial number n, written with 7 digits
SerialDate(n) == _parse_excel_serial(Padded(n, 7))

\* the input is a serial number the Excel strategy accepts
SerialAccepted ==
    /\ SerialWritten
    /\ int(date_str.value) <= MAX_EXCEL_SERIAL
    /\ returned_by = "excel"

\* the date of the input's serial is before that of the larger serial n,
\* or the two are serials 59 and 60, which have the same date
BeforeSerial(s, n) ==
    IF s = 59 /\ n = 60 THEN SerialDate(s) = SerialDate(n)
    ELSE toordinal(SerialDate(s)) < toordinal(SerialDate(n))

\* C29: the mapping of Excel serials is strictly increasing except at the
\* pair 59, 60, which both resolve to 1900-02-28 (1900-02-29 is never
\* produced); serial 1 resolves to 1900-01-01 and serial 61 to 1900-03-01.
C29_SerialsIncrease ==
    SerialAccepted =>
        LET s == int(date_str.value)
        IN  /\ _parse_excel_serial(date_str.value) = SerialDate(s)
            /\ SerialDate(s) # date(1900, 2, 29)
            /\ s = 1 => parsed = date(1900, 1, 1)
            /\ s \in {59, 60} => parsed = date(1900, 2, 28)
            /\ s = 61 => parsed = date(1900, 3, 1)
            /\ s < MAX_EXCEL_SERIAL => BeforeSerial(s, s + 1)
            /\ \A n \in ExcelSerials :
                 (s < n /\ n <= MAX_EXCEL_SERIAL) => BeforeSerial(s, n)

\* serial 60, the fictitious leap day, is 1900-02-28 like serial 59
C29_FictitiousLeapDay ==
    /\ pc = "return"
    /\ date_str.value = "60"
    /\ returned_by = "excel"
    /\ parsed = date(1900, 2, 28)
    /\ SerialDate(59) = parsed

\* ---- C30 ----
\* a February 29 lies after the reference date and before the next birthday
SpansLeapDay ==
    \E y \in {today.year, today.year + 1} :
        /\ IsDate(date(y, 2, 29))
        /\ DateLess(today, date(y, 2, 29))
        /\ DateLess(date(y, 2, 29), NextBirthday(birthday, today))

\* C30: for a birthday not after the reference date, next_birthday_in_days
\* is in 0..365; it is never 366, also when a February 29 lies before the
\* next birthday or the birthday itself is a February 29.
C30_CountdownAtMostOneYear ==
    AgeReturned => age_data.next_birthday_in_days \in 0..365

\* the day after a birthday, a February 29 ahead: 365 days to go
C30_DayAfterBirthdayInLeapYear ==
    /\ AgeReturned
    /\ SpansLeapDay
    /\ toordinal(today) = toordinal(birthday) + 1
    /\ age_data.next_birthday_in_days = 365

=============================================================================
